---- MODULE Spec2Model ----
(***************************************************************************)
(* Model of the code-correction endpoint (the POST handler of the          *)
(* /api/correct route) of ai-code-fixer.                                   *)
(*                                                                         *)
(* A JavaScript string is modelled as a sequence of lexemes: a lexeme is   *)
(* a whitespace character, a brace, a bracket, a fence marker, a quoted    *)
(* JSON string literal, a number, a word or a fixed phrase.  trim,         *)
(* startsWith, replace, match, includes and JSON.parse are computed on     *)
(* these sequences.  A JavaScript value is a tagged record.                *)
(***************************************************************************)
EXTENDS Integers, Sequences, FiniteSets, TLC

VARIABLES pc, env, req, calls, sent, outcome, response, logs

vars == <<pc, env, req, calls, sent, outcome, response, logs>>

(***************************************************************************)
(* Bounds of the model.                                                    *)
(***************************************************************************)
MaxReplyLen == 2
MaxMsgLen == 2
\* The number of characters of the long string literal of the replies.
LongLen == 600

(***************************************************************************)
(* JavaScript values.                                                      *)
(***************************************************************************)
Undef == [t |-> "undef"]
Null == [t |-> "null"]
Bool(b) == [t |-> "bool", b |-> b]
Num(n) == [t |-> "num", n |-> n]
Str(s) == [t |-> "str", s |-> s]
Arr(a) == [t |-> "arr", a |-> a]
Obj(o) == [t |-> "obj", o |-> o]
EmptyObj == [k \in {} |-> Null]

\* ToBoolean: the falsy values are undefined, null, false, 0 and "".
Truthy(v) ==
  CASE v.t = "undef" -> FALSE
    [] v.t = "null" -> FALSE
    [] v.t = "bool" -> v.b
    [] v.t = "num" -> v.n # 0
    [] v.t = "str" -> v.s # <<>>
    [] OTHER -> TRUE

IsArray(v) == v.t = "arr"

\* Does reading a property of v throw a TypeError?
GetThrows(v) == v.t \in {"undef", "null"}

\* v.key for a value that is not null or undefined: objects made by
\* JSON.parse hold their own keys; the primitives and arrays have no such key.
Get(v, key) ==
  IF v.t = "obj" /\ key \in DOMAIN v.o THEN v.o[key] ELSE Undef

(***************************************************************************)
(* Text: lexemes and the string operations the handler uses.               *)
(***************************************************************************)
WS == {" ", "\n"}
\* The fence marker of a Markdown code block (three backquotes).
Fence == "<fence>"
StrLit == {"<correctedCode>", "<explanation>", "<issues>",
           "<x>", "<y>", "<>", "<long>"}
NumLit == {"0", "5"}

\* The content of a quoted string literal; "<x>" stands for the literal
\* x between double quotes, "<>" for the empty string literal.
LitStr(tok) ==
  CASE tok = "<correctedCode>" -> "correctedCode"
    [] tok = "<explanation>" -> "explanation"
    [] tok = "<issues>" -> "issues"
    [] tok = "<x>" -> "x"
    [] tok = "<y>" -> "y"
    [] tok = "<long>" -> "long"
    [] OTHER -> ""

LitText(tok) == IF LitStr(tok) = "" THEN <<>> ELSE <<LitStr(tok)>>

LitNum(tok) == IF tok = "5" THEN 5 ELSE 0

RECURSIVE TrimStart(_)
TrimStart(s) ==
  IF s # <<>> /\ Head(s) \in WS THEN TrimStart(Tail(s)) ELSE s

RECURSIVE TrimEnd(_)
TrimEnd(s) ==
  IF s # <<>> /\ s[Len(s)] \in WS THEN TrimEnd(SubSeq(s, 1, Len(s) - 1)) ELSE s

\* String.prototype.trim
Trim(s) == TrimEnd(TrimStart(s))

\* String.prototype.startsWith
StartsWith(s, p) == Len(s) >= Len(p) /\ SubSeq(s, 1, Len(p)) = p

\* String.prototype.includes: p occurs in s as a contiguous run.
Includes(s, p) ==
  \E i \in 1..(Len(s) - Len(p) + 1) : SubSeq(s, i, i + Len(p) - 1) = p

\* s.replace(/^p\s*/, <empty>) for a literal prefix p.
StripOpen(s, p) ==
  IF StartsWith(s, p) THEN TrimStart(SubSeq(s, Len(p) + 1, Len(s))) ELSE s

\* s.replace(/\s*<fence>$/, <empty>)
StripClose(s) ==
  IF s # <<>> /\ s[Len(s)] = Fence
    THEN TrimEnd(SubSeq(s, 1, Len(s) - 1))
    ELSE s

\* The lazy match s.match(/\{[\s\S]*?\}/): from the first "{" to the first
\* "}" after it.
BraceMatchLazy(s) ==
  LET opens == {i \in 1..Len(s) : s[i] = "{"}
      first == CHOOSE i \in opens : \A j \in opens : i <= j
      closes == {i \in 1..Len(s) : s[i] = "}" /\ i > first}
      last == CHOOSE i \in closes : \A j \in closes : i <= j
  IN  IF opens = {} THEN [found |-> FALSE]
      ELSE IF closes = {} THEN [found |-> FALSE]
      ELSE [found |-> TRUE, text |-> SubSeq(s, first, last)]

\* s.match(/\{[\s\S]*\}/): from the first "{" to the last "}" after it.
BraceMatch(s) ==
  LET opens == {i \in 1..Len(s) : s[i] = "{"}
      first == CHOOSE i \in opens : \A j \in opens : i <= j
      closes == {i \in 1..Len(s) : s[i] = "}" /\ i > first}
      last == CHOOSE i \in closes : \A j \in closes : j <= i
  IN  IF opens = {} THEN [found |-> FALSE]
      ELSE IF closes = {} THEN [found |-> FALSE]
      ELSE [found |-> TRUE, text |-> SubSeq(s, first, last)]

\* s.replace(/\n/g, <newline, comment marker>)
RECURSIVE CommentLines(_)
CommentLines(s) ==
  IF s = <<>> THEN <<>>
  ELSE IF Head(s) = "\n" THEN <<"\n", "// ">> \o CommentLines(Tail(s))
  ELSE <<Head(s)>> \o CommentLines(Tail(s))

(***************************************************************************)
(* JSON.parse on a lexeme sequence: a recursive-descent parser of the JSON *)
(* grammar.  The result is [ok |-> TRUE, val |-> v] or [ok |-> FALSE]      *)
(* (a SyntaxError is thrown).                                              *)
(***************************************************************************)
RECURSIVE SkipWS(_, _)
SkipWS(s, i) == IF i <= Len(s) /\ s[i] \in WS THEN SkipWS(s, i + 1) ELSE i

ParseFail == [ok |-> FALSE]
ParseOk(v, n) == [ok |-> TRUE, val |-> v, next |-> n]

RECURSIVE ParseValue(_, _)
RECURSIVE ParseElems(_, _, _)
RECURSIVE ParseMembers(_, _, _)

ParseValue(s, i) ==
  LET j == SkipWS(s, i) IN
  IF j > Len(s) THEN ParseFail
  ELSE CASE s[j] = "null" -> ParseOk(Null, j + 1)
         [] s[j] = "true" -> ParseOk(Bool(TRUE), j + 1)
         [] s[j] = "false" -> ParseOk(Bool(FALSE), j + 1)
         [] s[j] \in NumLit -> ParseOk(Num(LitNum(s[j])), j + 1)
         [] s[j] \in StrLit -> ParseOk(Str(LitText(s[j])), j + 1)
         [] s[j] = "[" ->
              LET k == SkipWS(s, j + 1) IN
              IF k <= Len(s) /\ s[k] = "]"
                THEN ParseOk(Arr(<<>>), k + 1)
                ELSE ParseElems(s, j + 1, <<>>)
         [] s[j] = "{" ->
              LET k == SkipWS(s, j + 1) IN
              IF k <= Len(s) /\ s[k] = "}"
                THEN ParseOk(Obj(EmptyObj), k + 1)
                ELSE ParseMembers(s, j + 1, EmptyObj)
         [] OTHER -> ParseFail

ParseElems(s, i, acc) ==
  LET r == ParseValue(s, i) IN
  IF ~r.ok THEN ParseFail
  ELSE LET k == SkipWS(s, r.next) IN
       IF k > Len(s) THEN ParseFail
       ELSE IF s[k] = "," THEN ParseElems(s, k + 1, Append(acc, r.val))
       ELSE IF s[k] = "]" THEN ParseOk(Arr(Append(acc, r.val)), k + 1)
       ELSE ParseFail

ParseMembers(s, i, acc) ==
  LET j == SkipWS(s, i) IN
  IF j > Len(s) \/ s[j] \notin StrLit THEN ParseFail
  ELSE LET c == SkipWS(s, j + 1) IN
       IF c > Len(s) \/ s[c] # ":" THEN ParseFail
       ELSE LET r == ParseValue(s, c + 1) IN
            IF ~r.ok THEN ParseFail
            ELSE LET k == SkipWS(s, r.next)
                     \* a repeated key keeps its last value
                     o == (LitStr(s[j]) :> r.val) @@ acc
                 IN  IF k > Len(s) THEN ParseFail
                     ELSE IF s[k] = "," THEN ParseMembers(s, k + 1, o)
                     ELSE IF s[k] = "}" THEN ParseOk(Obj(o), k + 1)
                     ELSE ParseFail

JSONparse(s) ==
  LET r == ParseValue(s, 1) IN
  IF r.ok /\ SkipWS(s, r.next) > Len(s)
    THEN [ok |-> TRUE, val |-> r.val]
    ELSE ParseFail

(***************************************************************************)
(* The responses of the handler: NextResponse.json(body, {status}).        *)
(* JSON serialisation leaves out the properties whose value is undefined.  *)
(***************************************************************************)
Phrase(p) == Str(<<p>>)

JsonBody(o) == [k \in {x \in DOMAIN o : o[x].t # "undef"} |-> o[k]]

Respond(status, o) == [status |-> status, body |-> JsonBody(o)]

ErrorBody(msg) == "error" :> Phrase(msg)

ResultBody(cc, ex, is) ==
  ("correctedCode" :> cc) @@ ("explanation" :> ex) @@ ("issues" :> is)

(***************************************************************************)
(* Thrown values.                                                          *)
(***************************************************************************)
ErrorOf(msg) == [isError |-> TRUE, message |-> msg]
NonError == [isError |-> FALSE, message |-> <<>>]

TypeErrorNullRead ==
  ErrorOf(<<"Cannot read properties of null (reading correctedCode)">>)
TypeErrorNoChoices ==
  ErrorOf(<<"Cannot read properties of undefined (reading 0)">>)
TypeErrorDestructure ==
  ErrorOf(<<"Cannot destructure property code of null">>)
TypeErrorTrim == ErrorOf(<<"code.trim is not a function">>)
SyntaxErrorBody == ErrorOf(<<"Unexpected", "token", "in", "JSON">>)

(***************************************************************************)
(* The catch block: the thrown value is classified by its message.         *)
(***************************************************************************)
IsAuth(m) ==
  \/ Includes(m, <<"API", "key">>)
  \/ Includes(m, <<"authentication">>)
  \/ Includes(m, <<"unauthorized">>)

IsRateLimit(m) ==
  \/ Includes(m, <<"rate", "limit">>)
  \/ Includes(m, <<"quota">>)
  \/ Includes(m, <<"limit", "exceeded">>)

IsTimeout(m) == Includes(m, <<"timeout">>) \/ Includes(m, <<"network">>)

IsMalformed(m) == Includes(m, <<"JSON">>) \/ Includes(m, <<"parse">>)

\* The classification without the word "network" among the timeout words.
ClassifyNoNetwork(e) ==
  IF ~e.isError THEN "Unknown"
  ELSE IF IsAuth(e.message) THEN "Auth"
  ELSE IF IsRateLimit(e.message) THEN "RateLimit"
  ELSE IF Includes(e.message, <<"timeout">>) THEN "Timeout"
  ELSE IF IsMalformed(e.message) THEN "MalformedProviderResponse"
  ELSE "Unknown"

Classify(e) ==
  IF ~e.isError THEN "Unknown"
  ELSE IF IsAuth(e.message) THEN "Auth"
  ELSE IF IsRateLimit(e.message) THEN "RateLimit"
  ELSE IF IsTimeout(e.message) THEN "Timeout"
  ELSE IF IsMalformed(e.message) THEN "MalformedProviderResponse"
  ELSE "Unknown"

Catch(e) ==
  LET c == Classify(e) IN
  CASE c = "Auth" ->
         Respond(401, ErrorBody("Invalid Groq API key. Please check your GROQ_API_KEY in environment variables."))
    [] c = "RateLimit" ->
         Respond(429, ErrorBody("Groq API rate limit exceeded. Please try again in a moment."))
    [] c = "Timeout" ->
         Respond(504, ErrorBody("Network timeout. Please check your connection and try again."))
    [] c = "MalformedProviderResponse" ->
         Respond(500, ErrorBody("Groq returned an invalid response format. Please try again."))
    [] OTHER ->
         Respond(500,
           ErrorBody("Failed to analyze code with Groq API. Please try again.")
           @@ ("details" :> (IF e.isError THEN Str(e.message)
                             ELSE Phrase("Unknown error occurred"))))

(***************************************************************************)
(* The response normalizer: the part of the handler after the provider's   *)
(* reply.                                                                  *)
(***************************************************************************)
\* Remove a Markdown code block around the reply.
StripFence(s) ==
  IF StartsWith(s, <<Fence, "json">>) THEN StripClose(StripOpen(s, <<Fence, "json">>))
  ELSE IF StartsWith(s, <<Fence>>) THEN StripClose(StripOpen(s, <<Fence>>))
  ELSE s

\* The text handed to JSON.parse.
Candidate(responseText) ==
  LET jsonString == StripFence(Trim(responseText))
      jsonMatch == BraceMatch(jsonString)
  IN  IF jsonMatch.found THEN jsonMatch.text ELSE jsonString

FallbackCode(responseText, code) ==
  <<"// Groq response (parsing failed):", "\n", "// ">>
    \o CommentLines(responseText)
    \o <<"\n", "\n", "// Original code:", "\n">>
    \o code

FallbackResult(responseText, code) ==
  ResultBody(
    Str(FallbackCode(responseText, code)),
    Phrase("Groq provided feedback but in an unexpected format. The raw response is shown as comments in the corrected code section above your original code."),
    Arr(<<Phrase("JSON parsing failed - Groq returned non-JSON format"),
          Phrase("Check the raw response in the corrected code section"),
          Phrase("Try submitting the code again for a properly formatted response")>>))

\* The partial-failure result echoing the trimmed code.
MissingResultTrimmed(code) ==
  ResultBody(
    Str(Trim(code)),
    Phrase("Groq response was missing the corrected code. Please try again."),
    Arr(<<Phrase("Invalid API response format"),
          Phrase("Missing corrected code field")>>))

MissingResult(code) ==
  ResultBody(
    Str(code),
    Phrase("Groq response was missing the corrected code. Please try again."),
    Arr(<<Phrase("Invalid API response format"),
          Phrase("Missing corrected code field")>>))

\* The defaults with the operands of || exchanged: the canned sentence wins.
ValidatedResultCanned(parsedResponse) ==
  ResultBody(
    Get(parsedResponse, "correctedCode"),
    Phrase("Code has been analyzed and corrections have been applied."),
    IF IsArray(Get(parsedResponse, "issues"))
      THEN Get(parsedResponse, "issues")
      ELSE Arr(<<Phrase("Code analysis completed")>>))

ValidatedResult(parsedResponse) ==
  ResultBody(
    Get(parsedResponse, "correctedCode"),
    IF Truthy(Get(parsedResponse, "explanation"))
      THEN Get(parsedResponse, "explanation")
      ELSE Phrase("Code has been analyzed and corrections have been applied."),
    IF IsArray(Get(parsedResponse, "issues"))
      THEN Get(parsedResponse, "issues")
      ELSE Arr(<<Phrase("Code analysis completed")>>))

\* "fallback", "throws", "missing" or "validated": the path the normalizer takes.
Mode(responseText) ==
  LET parsed == JSONparse(Candidate(responseText)) IN
  IF ~parsed.ok THEN "fallback"
  ELSE IF GetThrows(parsed.val) THEN "throws"
  ELSE IF ~Truthy(Get(parsed.val, "correctedCode")) THEN "missing"
  ELSE "validated"

Normalize(responseText, code) ==
  LET parsed == JSONparse(Candidate(responseText))
      m == Mode(responseText)
  IN  CASE m = "fallback" -> Respond(200, FallbackResult(responseText, code))
        [] m = "throws" -> Catch(TypeErrorNullRead)
        [] m = "missing" -> Respond(200, MissingResult(code))
        [] OTHER -> Respond(200, ValidatedResult(parsed.val))

(***************************************************************************)
(* The diagnostic log.  The length of a text is counted in characters: the *)
(* long string literal has LongLen characters between its quotes, every    *)
(* other lexeme counts as one character.  A preview is the whole lexemes   *)
(* that fit and the number of characters kept of the lexeme that is cut.   *)
(***************************************************************************)
PreviewLen == 300
ParsePreviewLen == 500

Width(lex) ==
  IF lex = "long" THEN LongLen
  ELSE IF lex = "<long>" THEN LongLen + 2
  ELSE 1

RECURSIVE Chars(_)
Chars(s) == IF s = <<>> THEN 0 ELSE Width(Head(s)) + Chars(Tail(s))

\* The number of leading lexemes of s that fit in n characters.
RECURSIVE Fit(_, _)
Fit(s, n) ==
  IF s = <<>> \/ Width(Head(s)) > n THEN 0
  ELSE 1 + Fit(Tail(s), n - Width(Head(s)))

\* String.prototype.substring(0, n)
Substring(s, n) ==
  LET k == Fit(s, n) IN
  [whole |-> SubSeq(s, 1, k),
   part |-> IF k < Len(s) THEN n - Chars(SubSeq(s, 1, k)) ELSE 0]

NoPreview == [whole |-> <<>>, part |-> 0]

\* console.log / console.error of a label and one more argument: a preview
\* of a text, a value or a thrown error.
LogPreview(level, label, p, suffix) ==
  [level |-> level, label |-> label, kind |-> "preview", preview |-> p,
   suffix |-> suffix, value |-> Undef, error |-> NonError]

LogValue(level, label, v) ==
  [level |-> level, label |-> label, kind |-> "value", preview |-> NoPreview,
   suffix |-> <<>>, value |-> v, error |-> NonError]

LogError(level, label, e) ==
  [level |-> level, label |-> label, kind |-> "error", preview |-> NoPreview,
   suffix |-> <<>>, value |-> Undef, error |-> e]

\* The SyntaxError JSON.parse throws.
SyntaxErrorParse == ErrorOf(<<"Unexpected", "token", "in", "JSON">>)

\* The log line of the catch block.
CatchLog(e) == LogError("error", "Groq API Error:", e)

\* The log lines the handler writes after the provider's reply.
NormalizeLogs(responseText) ==
  LET parsed == JSONparse(Candidate(responseText))
      m == Mode(responseText)
      raw == LogPreview("log", "Groq raw response:",
                        Substring(responseText, PreviewLen), <<"...">>)
  IN  CASE m = "fallback" ->
             <<raw,
               LogPreview("error", "Failed to parse Groq response:",
                          Substring(Candidate(responseText), ParsePreviewLen), <<>>),
               LogError("error", "Parse error:", SyntaxErrorParse)>>
        [] m = "throws" -> <<raw, CatchLog(TypeErrorNullRead)>>
        [] m = "missing" ->
             <<raw,
               LogValue("error", "Groq response missing correctedCode field:",
                        parsed.val)>>
        [] OTHER -> <<raw>>

\* chatCompletion.choices[0]?.message?.content || <empty string>
ResponseText(completion) ==
  IF Truthy(completion.content) THEN completion.content.s ELSE <<>>

(***************************************************************************)
(* The prompt sent to the provider.                                        *)
(***************************************************************************)
BuildPrompt(code, language, description) ==
  <<"You are an expert ">> \o language
    \o <<" developer and code reviewer. Analyze and fix this code. Respond with ONLY valid JSON in this exact format:",
         "\n", "\n", "{", "<correctedCode>", ":", "<the complete fixed code here>", ",",
         "<explanation>", ":", "<detailed explanation>", ",",
         "<issues>", ":", "[", "<specific issue 1>", "]", "}", "\n", "\n">>
    \o (IF Truthy(description) THEN <<"Context: ">> \o description.s ELSE <<>>)
    \o <<"\n", "\n", "Code to analyze and fix:", "\n", Fence>> \o language \o <<"\n">>
    \o code
    \o <<"\n", Fence, "\n", "\n", "Focus on: ...", "\n", "\n",
         "IMPORTANT: Return ONLY the JSON object">>

(***************************************************************************)
(* Inputs: the requests, the provider's replies and failures.              *)
(***************************************************************************)
Codes ==
  { Undef, Str(<<>>), Str(<<" ">>), Str(<<"\n", " ">>), Num(0), Num(5),
    Str(<<"c">>), Str(<<" ", "c", "\n", "c">>) }

Languages == { <<"python">>, <<"javascript">> }

Descriptions == { Undef, Str(<<"d">>) }

Requests ==
  { [raw |-> k, code |-> Undef, language |-> <<"python">>, description |-> Undef] :
      k \in {"malformed", "null"} }
  \cup
  { [raw |-> "object", code |-> c, language |-> l, description |-> d] :
      c \in Codes, l \in Languages, d \in Descriptions }

Envs == { [GROQ_API_KEY |-> b] : b \in BOOLEAN }

\* All texts of at most n lexemes of the alphabet A.
RECURSIVE TextsUpTo(_, _)
TextsUpTo(A, n) ==
  IF n = 0 THEN { <<>> }
  ELSE LET shorter == TextsUpTo(A, n - 1) IN
       shorter \cup { Append(s, a) : s \in shorter, a \in A }

ReplyAlphabet ==
  { " ", "\n", Fence, "json", "w", "{", "}", "[", "]", ":", ",",
    "null", "5", "<correctedCode>", "<x>", "<>" }

\* Serialized objects: each of the three fields is absent or has one of
\* these value texts.
Absent == <<"absent">>
CodeTexts == { Absent, <<"<x>">>, <<"<>">>, <<"5">>, <<"null">>, <<"{", "}">> }
ExplTexts == { Absent, <<"<y>">>, <<"<>">>, <<"5">>, <<"{", "}">>, <<"<long>">> }
IssueTexts ==
  { Absent, <<"[", "]">>, <<"[", "<x>", "]">>, <<"[", "<x>", ",", " ", "<y>", "]">>,
    <<"[", "5", "]">>, <<"<x>">>, <<"null">> }

Member(key, text) == IF text = Absent THEN <<>> ELSE <<<<key, ":">> \o text>>

RECURSIVE JoinMembers(_)
JoinMembers(ms) ==
  IF ms = <<>> THEN <<>>
  ELSE IF Len(ms) = 1 THEN ms[1]
  ELSE ms[1] \o <<",">> \o JoinMembers(Tail(ms))

ObjectText(cc, ex, is) ==
  <<"{">>
    \o JoinMembers(Member("<correctedCode>", cc) \o Member("<explanation>", ex)
                   \o Member("<issues>", is))
    \o <<"}">>

ObjectTexts ==
  { ObjectText(cc, ex, is) : cc \in CodeTexts, ex \in ExplTexts, is \in IssueTexts }

\* What a reply puts around the object: a code block, whitespace, commentary.
Wrappers ==
  { [pre |-> <<>>, post |-> <<>>],
    [pre |-> <<" ", "\n">>, post |-> <<"\n">>],
    [pre |-> <<Fence, "json", "\n">>, post |-> <<"\n", Fence>>],
    [pre |-> <<Fence, "\n">>, post |-> <<"\n", Fence>>],
    [pre |-> <<Fence, "js", "\n">>, post |-> <<"\n", Fence, "\n">>],
    [pre |-> <<"w", " ">>, post |-> <<>>],
    [pre |-> <<>>, post |-> <<"\n", "w">>],
    [pre |-> <<"w", "\n", Fence, "json", "\n">>, post |-> <<"\n", Fence, "\n", "w">>] }

Wrap(w, text) == w.pre \o text \o w.post

\* Replies that hold the long string literal and are not JSON.
LongReplies == { <<"w", " ", "<long>">>, <<"{", "<long>">> }

ReplyTexts ==
  TextsUpTo(ReplyAlphabet, MaxReplyLen)
  \cup { Wrap(w, o) : w \in Wrappers, o \in ObjectTexts }
  \cup LongReplies

\* A resolved completion: its content, or no choices at all.
Completions ==
  { [choices |-> TRUE, content |-> Str(s)] : s \in ReplyTexts }
  \cup { [choices |-> TRUE, content |-> Null], [choices |-> FALSE, content |-> Null] }

MessageWords ==
  { "API", "key", "authentication", "unauthorized", "rate", "limit", "quota",
    "exceeded", "timeout", "network", "JSON", "parse", "failed" }

Failures ==
  { ErrorOf(m) : m \in TextsUpTo(MessageWords, MaxMsgLen) } \cup { NonError }

NoRequest ==
  [raw |-> "none", code |-> Undef, language |-> <<>>, description |-> Undef]
NoResponse == [status |-> 0, body |-> EmptyObj]
NoOutcome == [kind |-> "none"]

(***************************************************************************)
(* The handler, one action per stretch of code between two awaits.         *)
(***************************************************************************)
Init ==
  /\ pc = "idle"
  /\ env \in Envs
  /\ req = NoRequest
  /\ calls = 0
  /\ sent = <<>>
  /\ outcome = NoOutcome
  /\ response = NoResponse
  /\ logs = <<>>

\* A request arrives.
Submit(r) ==
  /\ pc = "idle"
  /\ pc' = "entered"
  /\ req' = r
  /\ UNCHANGED <<env, calls, sent, outcome, response, logs>>

\* The response is returned to the caller; nothing of the request is kept.
Return ==
  /\ pc = "done"
  /\ pc' = "idle"
  /\ req' = NoRequest
  /\ calls' = 0
  /\ sent' = <<>>
  /\ outcome' = NoOutcome
  /\ response' = NoResponse
  /\ logs' = <<>>
  /\ UNCHANGED env

\* The process is restarted with another environment.
Configure(e) ==
  /\ pc = "idle"
  /\ env' = e
  /\ env' # env
  /\ UNCHANGED <<pc, req, calls, sent, outcome, response, logs>>

\* The handler without the credential check.
CheckCredentialSkipped ==
  /\ pc = "entered"
  /\ pc' = "reading"
  /\ UNCHANGED <<env, req, calls, sent, outcome, response, logs>>

\* The credential check, up to await request.json().
CheckCredential ==
  /\ pc = "entered"
  /\ IF ~env.GROQ_API_KEY
       THEN /\ response' = Respond(500, ErrorBody("Groq API key not configured. Please add GROQ_API_KEY to your environment variables."))
            /\ pc' = "done"
       ELSE /\ pc' = "reading"
            /\ UNCHANGED response
  /\ UNCHANGED <<env, req, calls, sent, outcome, logs>>

\* What reading and validating the request body throws, if anything.
ReadThrows(r) ==
  \/ r.raw # "object"
  \/ (Truthy(r.code) /\ r.code.t # "str")

ReadError(r) ==
  IF r.raw = "malformed" THEN SyntaxErrorBody
  ELSE IF r.raw = "null" THEN TypeErrorDestructure
  ELSE TypeErrorTrim

\* The validation without the trim: !code
CodeIsBlankNoTrim(code) == ~Truthy(code)

\* !code || !code.trim()
CodeIsBlank(code) == ~Truthy(code) \/ Trim(code.s) = <<>>

\* From the request body to the call of the provider.
ValidateAndInvoke ==
  /\ pc = "reading"
  /\ IF ReadThrows(req)
       THEN /\ response' = Catch(ReadError(req))
            /\ logs' = Append(logs, CatchLog(ReadError(req)))
            /\ pc' = "done"
            /\ UNCHANGED <<calls, sent>>
       ELSE IF CodeIsBlank(req.code)
       THEN /\ response' = Respond(400, ErrorBody("Code is required"))
            /\ pc' = "done"
            /\ UNCHANGED <<calls, sent, logs>>
       ELSE /\ sent' = BuildPrompt(req.code.s, req.language, req.description)
            /\ calls' = calls + 1
            /\ pc' = "awaiting"
            /\ UNCHANGED <<response, logs>>
  /\ UNCHANGED <<env, req, outcome>>

\* The provider's call resolves: the reply is normalized and returned.
ProviderResolve(c) ==
  /\ pc = "awaiting"
  /\ outcome' = [kind |-> "resolved", completion |-> c]
  /\ response' = IF ~c.choices THEN Catch(TypeErrorNoChoices)
                 ELSE Normalize(ResponseText(c), req.code.s)
  /\ logs' = IF ~c.choices THEN Append(logs, CatchLog(TypeErrorNoChoices))
              ELSE logs \o NormalizeLogs(ResponseText(c))
  /\ pc' = "done"
  /\ UNCHANGED <<env, req, calls, sent>>

\* The provider's call rejects: the catch block answers.
ProviderReject(e) ==
  /\ pc = "awaiting"
  /\ outcome' = [kind |-> "rejected", error |-> e]
  /\ response' = Catch(e)
  /\ logs' = Append(logs, CatchLog(e))
  /\ pc' = "done"
  /\ UNCHANGED <<env, req, calls, sent>>

Next ==
  \/ \E r \in Requests : Submit(r)
  \/ \E e \in Envs : Configure(e)
  \/ CheckCredential
  \/ ValidateAndInvoke
  \/ \E c \in Completions : ProviderResolve(c)
  \/ \E e \in Failures : ProviderReject(e)
  \/ Return

Spec == Init /\ [][Next]_vars

(***************************************************************************)
(* Vocabulary of the properties.                                           *)
(***************************************************************************)
Done == pc = "done"

\* The provider returned a completion with a reply text (possibly empty).
Replied == outcome.kind = "resolved" /\ outcome.completion.choices

ReplyText == ResponseText(outcome.completion)

Success == Done /\ response.status = 200

IsString(v) == v.t = "str"
IsStringSeq(v) == v.t = "arr" /\ \A i \in 1..Len(v.a) : IsString(v.a[i])

HasResultFields(b) == DOMAIN b = {"correctedCode", "explanation", "issues"}

\* A CorrectionResult as the data model defines it.
WellFormedResult(b) ==
  /\ HasResultFields(b)
  /\ IsString(b["correctedCode"]) /\ b["correctedCode"].s # <<>>
  /\ IsString(b["explanation"])
  /\ IsStringSeq(b["issues"])

\* A code that is a string of whitespace only (or the empty string).
BlankString(v) == IsString(v) /\ \A i \in 1..Len(v.s) : v.s[i] \in WS

\* The reply, once the code block and the commentary around it are removed,
\* is a serialized object.
ReplyIsObject ==
  /\ Replied
  /\ JSONparse(Candidate(ReplyText)).ok
  /\ JSONparse(Candidate(ReplyText)).val.t = "obj"

ReplyObject == JSONparse(Candidate(ReplyText)).val.o

NoBraces(s) == \A i \in 1..Len(s) : s[i] \notin {"{", "}"}

UnexpectedFormat ==
  Phrase("Groq provided feedback but in an unexpected format. The raw response is shown as comments in the corrected code section above your original code.")
MissingCode ==
  Phrase("Groq response was missing the corrected code. Please try again.")
CannedExplanation ==
  Phrase("Code has been analyzed and corrections have been applied.")

EndsWith(s, p) == Len(s) >= Len(p) /\ SubSeq(s, Len(s) - Len(p) + 1, Len(s)) = p

(***************************************************************************)
(* C1: every success response is a CorrectionResult with correctedCode a   *)
(* non-empty string, explanation a string and issues a sequence of         *)
(* strings.  The handler copies the parsed fields without checking their   *)
(* types: a reply {"correctedCode": 5} gives correctedCode the number 5.   *)
(***************************************************************************)
C1_SuccessIsWellFormed == Success => WellFormedResult(response.body)

(***************************************************************************)
(* C2: whenever the provider returns a reply text, the handler answers     *)
(* with a success response carrying the three result fields.  The reply    *)
(* null parses to the value null, and reading its correctedCode throws.    *)
(***************************************************************************)
C2_NormalizationNeverFails ==
  (Done /\ Replied) => (response.status = 200 /\ HasResultFields(response.body))

(***************************************************************************)
(* C3 as stated: a blank code is always answered 400 without a call of the *)
(* provider, whatever the configuration.                                   *)
(***************************************************************************)
C3_BlankAlwaysInvalidInput ==
  (Done /\ req.raw = "object" /\ BlankString(req.code))
    => (response.status = 400 /\ calls = 0)

(***************************************************************************)
(* C3 amended: for a blank code the provider is never called; the answer   *)
(* is 400 with an error body when the credential is configured, and the    *)
(* configuration failure (500) when it is not.                             *)
(***************************************************************************)
C3_BlankNeverInvokes ==
  (req.raw = "object" /\ BlankString(req.code))
    => /\ calls = 0
       /\ pc # "awaiting"
       /\ Done => /\ response.status = (IF env.GROQ_API_KEY THEN 400 ELSE 500)
                  /\ DOMAIN response.body = {"error"}
                  /\ env.GROQ_API_KEY => response.body["error"] = Phrase("Code is required")

C3_Witness ==
  /\ Done /\ env.GROQ_API_KEY
  /\ req.raw = "object" /\ req.code = Str(<<"\n", " ">>)
  /\ response.status = 400

(***************************************************************************)
(* C4: every failure is a body {error, details?} with a non-empty error    *)
(* string and the status of its category: missing credential 500, blank    *)
(* code 400, and a provider failure by the first class its message         *)
(* matches: Auth 401, RateLimit 429, Timeout 504, anything else 500.       *)
(***************************************************************************)
Mentions(m, w) == \E i \in 1..Len(m) : m[i] = w
MentionsPair(m, v, w) == \E i \in 1..(Len(m) - 1) : m[i] = v /\ m[i + 1] = w

ExpectedStatus(e) ==
  IF ~e.isError THEN 500
  ELSE IF \/ MentionsPair(e.message, "API", "key")
          \/ Mentions(e.message, "authentication")
          \/ Mentions(e.message, "unauthorized") THEN 401
  ELSE IF \/ MentionsPair(e.message, "rate", "limit")
          \/ Mentions(e.message, "quota")
          \/ MentionsPair(e.message, "limit", "exceeded") THEN 429
  ELSE IF Mentions(e.message, "timeout") \/ Mentions(e.message, "network") THEN 504
  ELSE 500

ErrorShape(b) ==
  /\ "error" \in DOMAIN b
  /\ DOMAIN b \subseteq {"error", "details"}
  /\ IsString(b["error"]) /\ b["error"].s # <<>>
  /\ "details" \in DOMAIN b => IsString(b["details"])

C4_FailuresMapped ==
  Done =>
    /\ response.status \in {200, 400, 401, 429, 500, 504}
    /\ response.status # 200 => ErrorShape(response.body)
    /\ ~env.GROQ_API_KEY => response.status = 500
    /\ (env.GROQ_API_KEY /\ req.raw = "object" /\ BlankString(req.code))
         => response.status = 400
    /\ outcome.kind = "rejected" => response.status = ExpectedStatus(outcome.error)

C4_Witness ==
  /\ Done
  /\ outcome.kind = "rejected"
  /\ outcome.error = ErrorOf(<<"rate", "limit">>)
  /\ response.status = 429

(***************************************************************************)
(* C5 as stated: a reply that is exactly a serialized object with all      *)
(* three fields present is returned with the three field values verbatim.  *)
(* "Well-formed" is read in the claim's favour: the fields have the types  *)
(* of a CorrectionResult (correctedCode a non-empty string, explanation a  *)
(* string, issues a sequence of strings).  An empty explanation is still   *)
(* replaced by the canned sentence.                                        *)
(***************************************************************************)
FieldValue(text) == JSONparse(text).val

\* The reply is the serialized object with these three field texts.
ReplyIsExactly(cc, ex, is) == Replied /\ ReplyText = ObjectText(cc, ex, is)

ReturnsVerbatim(cc, ex, is) ==
  /\ response.status = 200
  /\ response.body = ResultBody(FieldValue(cc), FieldValue(ex), FieldValue(is))

C5_RoundTrip ==
  Done =>
    \A cc \in CodeTexts \ {Absent}, ex \in ExplTexts \ {Absent},
       is \in IssueTexts \ {Absent} :
      ( /\ ReplyIsExactly(cc, ex, is)
        /\ WellFormedResult(ResultBody(FieldValue(cc), FieldValue(ex), FieldValue(is))) )
        => ReturnsVerbatim(cc, ex, is)

(***************************************************************************)
(* C5 amended: a reply that is exactly a serialized object whose           *)
(* correctedCode and explanation are present and non-empty (truthy) and    *)
(* whose issues is an array is returned with the three field values        *)
(* verbatim.                                                               *)
(***************************************************************************)
C5_RoundTripOfUsableFields ==
  Done =>
    \A cc \in CodeTexts \ {Absent}, ex \in ExplTexts \ {Absent},
       is \in IssueTexts \ {Absent} :
      ( /\ ReplyIsExactly(cc, ex, is)
        /\ Truthy(FieldValue(cc))
        /\ Truthy(FieldValue(ex))
        /\ IsArray(FieldValue(is)) )
        => ReturnsVerbatim(cc, ex, is)

C5_Witness ==
  /\ Done
  /\ ReplyIsExactly(<<"<x>">>, <<"<y>">>, <<"[", "<x>", ",", " ", "<y>", "]">>)
  /\ response.status = 200
  /\ response.body["issues"] = Arr(<<Str(<<"x">>), Str(<<"y">>)>>)

(***************************************************************************)
(* C6: a reply that is not structured data (here: a reply without any      *)
(* brace) is answered by the fallback: success, three issues, the fixed    *)
(* explanation, and a correctedCode that ends with the original code.      *)
(* Brace-free replies that are JSON values (null, 5, a string literal, an  *)
(* array) do not take the fallback path.                                   *)
(***************************************************************************)
FallbackShape ==
  /\ response.status = 200
  /\ HasResultFields(response.body)
  /\ IsArray(response.body["issues"]) /\ Len(response.body["issues"].a) = 3
  /\ response.body["explanation"] = UnexpectedFormat
  /\ IsString(response.body["correctedCode"])
  /\ EndsWith(response.body["correctedCode"].s, req.code.s)

C6_FallbackForUnstructured ==
  (Done /\ Replied /\ NoBraces(ReplyText)) => FallbackShape

(***************************************************************************)
(* C7: a reply that parses as an object whose correctedCode is missing or  *)
(* empty is answered by the partial-failure result: the original code, the *)
(* missing-code explanation and the two fixed issues, whatever explanation *)
(* and issues the reply holds.                                             *)
(***************************************************************************)
CodeMissingOrEmpty(o) ==
  "correctedCode" \notin DOMAIN o \/ o["correctedCode"] = Str(<<>>)

C7_PartialFailure ==
  (Done /\ ReplyIsObject /\ CodeMissingOrEmpty(ReplyObject))
    => /\ response.status = 200
       /\ response.body =
            ResultBody(req.code, MissingCode,
                       Arr(<<Phrase("Invalid API response format"),
                             Phrase("Missing corrected code field")>>))

C7_Witness ==
  /\ Done /\ ReplyIsObject
  /\ "correctedCode" \notin DOMAIN ReplyObject
  /\ "explanation" \in DOMAIN ReplyObject
  /\ "issues" \in DOMAIN ReplyObject
  /\ req.code = Str(<<" ", "c", "\n", "c">>)
  /\ response.body["correctedCode"] = req.code

(***************************************************************************)
(* C8: a reply that parses as an object with a non-empty correctedCode     *)
(* keeps it, gets the canned explanation when the explanation is absent,   *)
(* and gets a default issues sequence of at most one element when issues   *)
(* is absent or is not a sequence of strings; no field is missing.  An     *)
(* issues array of non-strings, such as [5], is returned as it is.         *)
(***************************************************************************)
C8_Defaulting ==
  (Done /\ ReplyIsObject /\ ~CodeMissingOrEmpty(ReplyObject)
        /\ IsString(ReplyObject["correctedCode"]))
    => /\ response.status = 200
       /\ HasResultFields(response.body)
       /\ response.body["correctedCode"] = ReplyObject["correctedCode"]
       /\ "explanation" \notin DOMAIN ReplyObject
            => response.body["explanation"] = CannedExplanation
       /\ ("issues" \notin DOMAIN ReplyObject \/ ~IsStringSeq(ReplyObject["issues"]))
            => /\ IsStringSeq(response.body["issues"])
               /\ Len(response.body["issues"].a) <= 1

(***************************************************************************)
(* C9: a serialized object inside a code block (with or without a language *)
(* tag), or with whitespace or brace-free commentary around it, is         *)
(* normalized as the bare object is: the text handed to the parser is the  *)
(* object, from the first opening to the last closing brace.               *)
(***************************************************************************)
C9_WrappingIsTransparent ==
  (Done /\ Replied) =>
    \A w \in Wrappers :
      \A o \in {x \in ObjectTexts : ReplyText = Wrap(w, x)} :
        /\ Candidate(ReplyText) = o
        /\ response = Normalize(o, req.code.s)

C9_Witness ==
  /\ Done /\ Replied
  /\ ReplyText = <<"w", "\n", Fence, "json", "\n">>
                   \o ObjectText(<<"<x>">>, <<"{", "}">>, <<"[", "<x>", "]">>)
                   \o <<"\n", Fence, "\n", "w">>
  /\ response.status = 200
  /\ response.body["correctedCode"] = Str(<<"x">>)
  /\ response.body["explanation"] = Obj(EmptyObj)

(***************************************************************************)
(* C10: in one handling the provider is called at most once, and only with *)
(* the credential configured and the code validated; without the           *)
(* credential the answer is 500 with no call; a failed call is answered    *)
(* with an error at once, with no second call.                             *)
(***************************************************************************)
C10_AtMostOneCall ==
  /\ calls \in {0, 1}
  /\ calls = 1 => /\ env.GROQ_API_KEY
                  /\ req.raw = "object"
                  /\ IsString(req.code) /\ ~BlankString(req.code)
                  /\ pc \in {"awaiting", "done"}
  /\ pc = "awaiting" => calls = 1
  /\ (Done /\ ~env.GROQ_API_KEY) => (response.status = 500 /\ calls = 0)
  /\ outcome.kind = "rejected"
       => (Done /\ calls = 1 /\ response.status \in {401, 429, 500, 504})

C10_Witness ==
  /\ Done /\ calls = 1
  /\ outcome.kind = "rejected"
  /\ outcome.error = ErrorOf(<<"timeout">>)
  /\ response.status = 504

(***************************************************************************)
(* C11: every log line, on every path, holds at most a preview of bounded  *)
(* length of the provider's reply, and never the user's code.  The bound   *)
(* is taken as the larger of the two preview lengths of the handler.  On   *)
(* the missing-correctedCode path the whole parsed reply is logged.        *)
(***************************************************************************)
RECURSIVE ValueChars(_)
RECURSIVE SeqChars(_)
RECURSIVE ObjChars(_, _)

\* The number of characters of reply text a logged value holds.
ValueChars(v) ==
  CASE v.t = "str" -> Chars(v.s)
    [] v.t = "arr" -> SeqChars(v.a)
    [] v.t = "obj" -> ObjChars(v.o, DOMAIN v.o)
    [] v.t = "undef" -> 0
    [] OTHER -> 1

SeqChars(a) == IF a = <<>> THEN 0 ELSE ValueChars(Head(a)) + SeqChars(Tail(a))

ObjChars(o, keys) ==
  IF keys = {} THEN 0
  ELSE LET k == CHOOSE x \in keys : TRUE
       IN  ValueChars(o[k]) + ObjChars(o, keys \ {k})

\* The number of characters of the reply a log line carries.
ReplyChars(entry) ==
  CASE entry.kind = "preview" -> Chars(entry.preview.whole) + entry.preview.part
    [] entry.kind = "value" -> ValueChars(entry.value)
    [] OTHER -> 0

HoldsUserCode(entry) ==
  /\ IsString(req.code) /\ req.code.s # <<>>
  /\ entry.kind = "preview"
  /\ Includes(entry.preview.whole, req.code.s)

C11_LogsAreBounded ==
  \A i \in 1..Len(logs) :
    /\ ReplyChars(logs[i]) <= ParsePreviewLen
    /\ ~HoldsUserCode(logs[i])

\* C11, the part that holds: the two preview lines are cut at their lengths
\* (300 for the raw reply, 500 for the text that failed to parse), and no
\* line holds the user's code.
C11_PreviewsAreCut ==
  \A i \in 1..Len(logs) :
    /\ (logs[i].kind = "preview" /\ logs[i].level = "log")
         => ReplyChars(logs[i]) <= PreviewLen
    /\ (logs[i].kind = "preview" /\ logs[i].level = "error")
         => ReplyChars(logs[i]) <= ParsePreviewLen
    /\ ~HoldsUserCode(logs[i])

\* A reply longer than the preview was cut in the log.
C11_CutWitness ==
  /\ Done /\ Replied
  /\ Chars(ReplyText) > ParsePreviewLen
  /\ Len(logs) = 3
  /\ ReplyChars(logs[1]) = PreviewLen
  /\ ReplyChars(logs[2]) = ParsePreviewLen

====
